---- MODULE Spec2Model ----
(***************************************************************************)
(* Model of qqqBot/etf_lag_analysis.py: nearest-tick lookup, percentile,   *)
(* the move/lag detector (PART 2), the stop-trigger simulation (PART 3)    *)
(* and the per-session loop of run_analysis with the handler of __main__.  *)
(*                                                                         *)
(* A tick is the pair <<epoch_ms, price>>.  Prices are integers (cents);   *)
(* every percentage the code computes in floating point is computed here   *)
(* exactly, as a comparison of cross-multiplied integers, and round(x, n)  *)
(* is rounding of the exact quotient to n decimals (ties to even).         *)
(* Epoch milliseconds of the sessions of DATES (about 1.77e12) are shifted *)
(* so that the market open is OpenMs: only differences of timestamps and   *)
(* the comparison with last_trigger_ms = 0 are read by the code.           *)
(* Python indices are kept 0-based: At(ticks, idx) is ticks[idx].          *)
(*                                                                         *)
(* PART 2 and PART 3 are run on series of a few ticks: the strides         *)
(* max(1, len // 1000) and max(1, len // 3000) are computed as in the code *)
(* and are 1 on them.  The guard on 100 ticks per series belongs to the    *)
(* loop over DATES, which is modelled on its own (SpecRun).  PART 1 writes *)
(* nothing that PART 2 or PART 3 read and is part of Analyse only.         *)
(* event_idx, trigger_idx and high_i are history variables: the index of   *)
(* the tick behind each event, and of the last tick that set a new         *)
(* reference high.                                                         *)
(***************************************************************************)
EXTENDS Integers, Sequences, FiniteSets, TLC

VARIABLES
    lk_ticks, lk_target, lk_found,          \* one call of price_at_time
    sorted_list, pct, pct_result,           \* one call of percentile
    qqq, tqqq, sqqq,                        \* the session's tick series
    pc, i,                                  \* position in PART 2 / PART 3
    move_events, event_idx,                 \* PART 2 (event_idx: history)
    stops_left, stop_pct, hwm, t_hwm, last_trigger_ms, trigger_events,
    trigger_idx, high_i,                    \* PART 3 (the last two: history)
    sessions, date_idx, outcomes, run_state \* run_analysis under __main__

lookupVars == <<lk_ticks, lk_target, lk_found>>
pctVars == <<sorted_list, pct, pct_result>>
seriesVars == <<qqq, tqqq, sqqq>>
moveVars == <<move_events, event_idx>>
stopVars == <<stops_left, stop_pct, hwm, t_hwm, last_trigger_ms,
              trigger_events, trigger_idx, high_i>>
runVars == <<sessions, date_idx, outcomes, run_state>>
vars == <<lookupVars, pctVars, seriesVars, pc, i, moveVars, stopVars, runVars>>

----------------------------------------------------------------------------
(* Bounds of the model *)

\* longest series drawn for a single lookup, and the span of its timestamps
MaxLen == 3
MaxT == 4
\* longest list and largest value drawn for percentile
MaxPLen == 5
MaxVal == 5
\* ticks of the reference and of the derived series in PART 2 and PART 3
QLen == 4
TLen == 3
MoveQLen == 3
MoveTLen == 3

(* Program constants *)

\* market open of the session, shifted (see the header)
OpenMs == 100000
cooldown_ms == 60000
move_window_ms == 10000
watch_steps == <<0, 1000, 2000, 5000, 10000, 20000, 30000>>
MinTicks == 100
NumDates == 5
\* the divisors of the sampling strides of PART 2 and PART 3
MoveStrideDiv == 1000
StopStrideDiv == 3000
\* stop_pct in hundredths of a percent: [0.2, 0.5], and the band's width 0.05
STOP_PCTS == <<20, 50>>
BandWidth == 5

----------------------------------------------------------------------------
(* Arithmetic *)

Abs(x) == IF x < 0 THEN -x ELSE x
Max(a, b) == IF a > b THEN a ELSE b
Min(a, b) == IF a < b THEN a ELSE b

\* the integer nearest to n / d, ties to the even one (Python's round)
RoundDiv(n, d) ==
    LET nn == IF d < 0 THEN -n ELSE n
        dd == Abs(d)
        q == nn \div dd
        r == nn % dd
    IN  IF 2 * r < dd THEN q
        ELSE IF 2 * r > dd THEN q + 1
        ELSE IF q % 2 = 0 THEN q ELSE q + 1

At(ticks, idx) == ticks[idx + 1]
Ms(tick) == tick[1]
Price(tick) == tick[2]

----------------------------------------------------------------------------
(* find_nearest_idx, price_at_time, percentile *)

RECURSIVE BisectLoop(_, _, _, _)
BisectLoop(ticks, target_ms, lo, hi) ==
    IF lo < hi
    THEN LET mid == (lo + hi) \div 2
         IN  IF Ms(At(ticks, mid)) < target_ms
             THEN BisectLoop(ticks, target_ms, mid + 1, hi)
             ELSE BisectLoop(ticks, target_ms, lo, mid)
    ELSE lo

\* faulty variant: the result of the bisection is returned without looking at lo - 1
find_nearest_idx_noback(ticks, target_ms) ==
    IF Len(ticks) = 0 THEN 0 ELSE BisectLoop(ticks, target_ms, 0, Len(ticks) - 1)

find_nearest_idx(ticks, target_ms) ==
    LET n == Len(ticks)
    IN  IF n = 0 THEN 0
        ELSE LET lo == BisectLoop(ticks, target_ms, 0, n - 1)
             IN  IF lo > 0 /\ Abs(Ms(At(ticks, lo)) - target_ms)
                              > Abs(Ms(At(ticks, lo - 1)) - target_ms)
                 THEN lo - 1
                 ELSE lo

price_at_time(ticks, ms) == At(ticks, find_nearest_idx(ticks, ms))

\* faulty variant: the rank is taken over len - 1 instead of len
percentile_lenm1(list, p) ==
    IF Len(list) = 0 THEN 0
    ELSE At(list, Max(0, Min(((Len(list) - 1) * p) \div 100, Len(list) - 1)))

percentile(list, p) ==
    IF Len(list) = 0 THEN 0
    ELSE LET idx == (Len(list) * p) \div 100
         IN  At(list, Max(0, Min(idx, Len(list) - 1)))

----------------------------------------------------------------------------
(* Values of the variables a specification does not use *)

IdleLookup == lk_ticks = <<>> /\ lk_target = 0 /\ lk_found = <<>>
IdlePct == sorted_list = <<>> /\ pct = 0 /\ pct_result = -1
IdleSeries == qqq = <<>> /\ tqqq = <<>> /\ sqqq = <<>>
IdleLoops == pc = "idle" /\ i = 0
IdleMove == move_events = <<>> /\ event_idx = <<>>
IdleStop ==
    /\ stops_left = <<>> /\ stop_pct = 0 /\ hwm = 0 /\ t_hwm = 0
    /\ last_trigger_ms = 0 /\ trigger_events = <<>> /\ trigger_idx = <<>>
    /\ high_i = 0
IdleRun == sessions = <<>> /\ date_idx = 0 /\ outcomes = <<>> /\ run_state = "idle"

----------------------------------------------------------------------------
(* Nearest-tick lookup on its own *)

\* sequences of length n over S
SeqsOfLen(S, n) == [1..n -> S]

IsSortedByMs(ticks) ==
    \A k \in 1..(Len(ticks) - 1) : Ms(ticks[k]) <= Ms(ticks[k + 1])

\* what load_ticks and filter_market_hours return: ticks sorted by time, none
\* before the open
LookupSeries ==
    UNION { { s \in SeqsOfLen((OpenMs..(OpenMs + MaxT)) \X {1, 2}, n) : IsSortedByMs(s) }
            : n \in 1..MaxLen }

LookupTargets == (OpenMs - 2)..(OpenMs + MaxT + 2)

InitLookup ==
    /\ lk_ticks \in LookupSeries
    /\ lk_target = 0
    /\ lk_found = <<>>
    /\ IdlePct /\ IdleSeries /\ IdleLoops /\ IdleMove /\ IdleStop /\ IdleRun

Lookup ==
    /\ lk_ticks # <<>>
    /\ \E ms \in LookupTargets :
          /\ lk_target' = ms
          /\ lk_found' = price_at_time(lk_ticks, ms)
    /\ UNCHANGED <<lk_ticks, pctVars, seriesVars, pc, i, moveVars, stopVars, runVars>>

NextLookup == Lookup
SpecLookup == InitLookup /\ [][NextLookup]_vars

----------------------------------------------------------------------------
(* percentile on its own *)

IsSortedList(list) == \A k \in 1..(Len(list) - 1) : list[k] <= list[k + 1]

SortedLists ==
    UNION { { s \in SeqsOfLen(1..MaxVal, n) : IsSortedList(s) } : n \in 0..MaxPLen }

InitPercentile ==
    /\ sorted_list \in SortedLists
    /\ pct = 0
    /\ pct_result = -1
    /\ IdleLookup /\ IdleSeries /\ IdleLoops /\ IdleMove /\ IdleStop /\ IdleRun

Percentile ==
    /\ \E p \in 0..100 :
          /\ pct' = p
          /\ pct_result' = percentile(sorted_list, p)
    /\ UNCHANGED <<sorted_list, lookupVars, seriesVars, pc, i, moveVars, stopVars, runVars>>

NextPercentile == Percentile
SpecPercentile == InitPercentile /\ [][NextPercentile]_vars

----------------------------------------------------------------------------
(* Claims about the lookup and about percentile *)

LastTick(ticks) == ticks[Len(ticks)]

\* C1: on a non-empty series sorted by timestamp (ties allowed) the tick that
\* price_at_time returns is a tick of the series whose timestamp is at the
\* least absolute distance from the query among all ticks; a query before the
\* first tick returns the first timestamp, one after the last the last.
C1_NearestIsClosest ==
    lk_found # <<>> =>
        /\ \E k \in 1..Len(lk_ticks) : lk_ticks[k] = lk_found
        /\ \A k \in 1..Len(lk_ticks) :
              Abs(Ms(lk_found) - lk_target) <= Abs(Ms(lk_ticks[k]) - lk_target)
        /\ lk_target < Ms(lk_ticks[1]) => Ms(lk_found) = Ms(lk_ticks[1])
        /\ lk_target > Ms(LastTick(lk_ticks)) => Ms(lk_found) = Ms(LastTick(lk_ticks))

\* a query strictly inside a three-tick series answered by an earlier tick
C1_Witness ==
    /\ lk_found # <<>>
    /\ Len(lk_ticks) = 3
    /\ Ms(lk_ticks[1]) < lk_target /\ lk_target < Ms(lk_ticks[3])
    /\ Ms(lk_found) < lk_target
    /\ Ms(lk_ticks[1]) < Ms(lk_found)

\* the rank floor(len * p / 100), by its defining inequalities
FloorRank(len, p) == CHOOSE k \in 0..len : 100 * k <= len * p /\ len * p < 100 * (k + 1)

\* C8: percentile of a sorted list is 0 for the empty list and otherwise the
\* element at index min(len - 1, max(0, floor(len * p / 100))), not
\* interpolated; percentile([1,2,3,4,5], 50) = 3 and p = 100 gives the last.
C8_PercentileNearestRank ==
    pct_result # -1 =>
        /\ sorted_list = <<>> => pct_result = 0
        /\ sorted_list # <<>> =>
              LET len == Len(sorted_list)
                  k == FloorRank(len, pct)
              IN  pct_result = At(sorted_list, Min(len - 1, Max(0, k)))
        /\ (sorted_list = <<1, 2, 3, 4, 5>> /\ pct = 50) => pct_result = 3
        /\ (sorted_list # <<>> /\ pct = 100) => pct_result = LastTick(sorted_list)

\* the 90th percentile of [1,2,3,4,5] is its last element, the median is 3
C8_Witness ==
    /\ sorted_list = <<1, 2, 3, 4, 5>>
    /\ pct = 90
    /\ pct_result = 5

----------------------------------------------------------------------------
(* PART 3: the stop-trigger simulation *)

\* max(1, len(qqq) // div)
Stride(len, div) == Max(1, len \div div)

RECURSIVE SumTo(_, _)
SumTo(gaps, k) == IF k = 0 THEN 0 ELSE gaps[k] + SumTo(gaps, k - 1)

\* the sorted series with the given prices, starting at start_ms, gaps[k]
\* milliseconds between tick k and tick k + 1
MakeTicks(start_ms, gaps, prices) ==
    [k \in 1..Len(prices) |-> <<start_ms + SumTo(gaps, k - 1), prices[k]>>]

\* q_drop = (hwm - q_p) / hwm * 100, compared with stop_pct (in hundredths of
\* a percent): stop_pct <= q_drop < stop_pct + 0.05
InBand(h, q_p, stop) ==
    /\ (h - q_p) * 10000 >= stop * h
    /\ (h - q_p) * 10000 < (stop + BandWidth) * h

\* faulty variant: the cooldown counts as over at exactly cooldown_ms
CooldownElapsed_AtLeast(q_ms, last_ms) == q_ms - last_ms >= cooldown_ms

\* faulty variant: no cooldown at all
CooldownElapsed_Always(q_ms, last_ms) == q_ms >= last_ms

\* (q_ms - last_trigger_ms) > cooldown_ms
CooldownElapsed(q_ms, last_ms) == q_ms - last_ms > cooldown_ms

\* faulty variant: a new reference high is missed
HwmAfterUpdate_Stale(h, q_p) == h

\* if q_p > hwm: hwm = q_p
HwmAfterUpdate(h, q_p) == IF q_p > h THEN q_p ELSE h

\* faulty variant: the derived HWM follows only the new reference highs
THwmAfterUpdate_NoOwnMax(h, th, q_p, t_p) == IF q_p > h THEN t_p ELSE th

\* if q_p > hwm: t_hwm = t_cur[1]; then if t_cur[1] > t_hwm: t_hwm = t_cur[1]
THwmAfterUpdate(h, th, q_p, t_p) ==
    LET th1 == IF q_p > h THEN t_p ELSE th
    IN  IF t_p > th1 THEN t_p ELSE th1

\* the record appended to trigger_events: qqq_drop and tqqq_drop in 1e-4
\* percent (round(x, 4)), ratio in thousandths (round(x, 3))
TriggerEvent(h, th, q, t_cur) ==
    [ qqq_drop |-> RoundDiv((h - Price(q)) * 1000000, h),
      tqqq_drop |-> RoundDiv((th - Price(t_cur)) * 1000000, th),
      ratio |-> IF h - Price(q) > 0
                THEN RoundDiv((th - Price(t_cur)) * h * 1000, th * (h - Price(q)))
                ELSE 0,
      tick_gap_ms |-> Abs(Ms(t_cur) - Ms(q)) ]

\* faulty variant: after a trigger only the reference HWM is reset
THwmAfterTrigger_Kept(th, t_p) == th

\* t_hwm = t_cur[1] after a trigger
THwmAfterTrigger(th, t_p) == t_p

BeginStop ==
    /\ pc = "part3"
    /\ stops_left # <<>>
    /\ stop_pct' = Head(stops_left)
    /\ stops_left' = Tail(stops_left)
    /\ hwm' = Price(At(qqq, 0))
    /\ t_hwm' = Price(At(tqqq, 0))
    /\ trigger_events' = <<>>
    /\ last_trigger_ms' = 0
    /\ trigger_idx' = <<>>
    /\ high_i' = 0
    /\ i' = 1
    /\ pc' = "stop_loop"
    /\ UNCHANGED <<lookupVars, pctVars, seriesVars, moveVars, runVars>>

StopStep ==
    /\ pc = "stop_loop"
    /\ i < Len(qqq)
    /\ LET q == At(qqq, i)
           t_cur == price_at_time(tqqq, Ms(q))
           h1 == HwmAfterUpdate(hwm, Price(q))
           th1 == THwmAfterUpdate(hwm, t_hwm, Price(q), Price(t_cur))
           fire == /\ InBand(h1, Price(q), stop_pct)
                   /\ CooldownElapsed(Ms(q), last_trigger_ms)
       IN  /\ IF fire
              THEN /\ trigger_events' = Append(trigger_events, TriggerEvent(h1, th1, q, t_cur))
                   /\ last_trigger_ms' = Ms(q)
                   /\ hwm' = Price(q)
                   /\ t_hwm' = THwmAfterTrigger(th1, Price(t_cur))
                   /\ trigger_idx' = Append(trigger_idx, i)
              ELSE /\ hwm' = h1
                   /\ t_hwm' = th1
                   /\ UNCHANGED <<trigger_events, last_trigger_ms, trigger_idx>>
           /\ high_i' = IF Price(q) > hwm THEN i ELSE high_i
    /\ i' = i + Stride(Len(qqq), StopStrideDiv)
    /\ UNCHANGED <<pc, stops_left, stop_pct>>
    /\ UNCHANGED <<lookupVars, pctVars, seriesVars, moveVars, runVars>>

\* the loop over the ticks is over: the summary of this stop_pct is printed
EndStop ==
    /\ pc = "stop_loop"
    /\ i >= Len(qqq)
    /\ pc' = IF stops_left = <<>> THEN "done" ELSE "part3"
    /\ UNCHANGED <<i, stopVars, lookupVars, pctVars, seriesVars, moveVars, runVars>>

NextStop == BeginStop \/ StopStep \/ EndStop

StopGaps == {30000, 30001}
StopQPrices == {11935, 11976, 12001}
StopTPrices == {5000, 5075}

\* a derived series with one tick every 30 s from the open
DerivedEvery30s(prices) ==
    [k \in 1..Len(prices) |-> <<OpenMs + 30000 * (k - 1), prices[k]>>]

InitPart3(qset, tset) ==
    /\ qqq \in qset
    /\ tqqq \in tset
    /\ sqqq = DerivedEvery30s([k \in 1..TLen |-> 2000])
    /\ pc = "part3"
    /\ i = 0
    /\ stops_left = STOP_PCTS
    /\ stop_pct = 0 /\ hwm = 0 /\ t_hwm = 0
    /\ last_trigger_ms = 0 /\ trigger_events = <<>> /\ trigger_idx = <<>>
    /\ high_i = 0
    /\ IdleLookup /\ IdlePct /\ IdleMove /\ IdleRun

InitStop ==
    InitPart3({ MakeTicks(OpenMs, g, p) :
                   g \in SeqsOfLen(StopGaps, QLen - 1), p \in SeqsOfLen(StopQPrices, QLen) },
              { DerivedEvery30s(p) : p \in SeqsOfLen(StopTPrices, TLen) })

SpecStop == InitStop /\ [][NextStop]_vars

\* reference series that drop monotonically from 100.00 to 99.00
IsMonotoneDrop(ticks) ==
    /\ Price(ticks[1]) = 10000
    /\ Price(LastTick(ticks)) = 9900
    /\ \A k \in 1..(Len(ticks) - 1) : Price(ticks[k]) >= Price(ticks[k + 1])

MonoQPrices == {9900, 9950, 9975, 10000}

InitMono ==
    InitPart3({ s \in { MakeTicks(OpenMs, g, p) :
                          g \in SeqsOfLen(StopGaps, QLen - 1),
                          p \in SeqsOfLen(MonoQPrices, QLen) } : IsMonotoneDrop(s) },
              { DerivedEvery30s(p) : p \in SeqsOfLen(StopTPrices, TLen) })

SpecMono == InitMono /\ [][NextStop]_vars

----------------------------------------------------------------------------
(* Claims about the stop-trigger simulation *)

SetMax(S) == CHOOSE m \in S : \A x \in S : x <= m
SetMin(S) == CHOOSE m \in S : \A x \in S : m <= x

\* the reference tick the next step of the loop reads, and a step of the loop
CurQ == At(qqq, i)
StepTaken == pc = "stop_loop" /\ i < Len(qqq) /\ i' # i
Recorded == Len(trigger_events') = Len(trigger_events) + 1

\* the drawdown of CurQ from the larger of hwm and its own price, in the band
\* [stop_pct, stop_pct + 0.05)
CurDrawdownInBand ==
    LET q_p == Price(CurQ)
        h == IF hwm >= q_p THEN hwm ELSE q_p
    IN  /\ 10000 * (h - q_p) >= stop_pct * h
        /\ 10000 * (h - q_p) < (stop_pct + 5) * h

\* C2 (as claimed): a trigger is recorded at a processed tick iff the drawdown
\* after the HWM update is in [threshold, threshold + 0.05) and at least
\* 60 000 ms have passed since the last trigger, exactly 60 000 ms included.
C2_Original ==
    [][StepTaken =>
          (Recorded <=> (CurDrawdownInBand /\ Ms(CurQ) - last_trigger_ms >= 60000))]_vars

\* C2 (amended): a trigger is recorded at a processed tick iff the drawdown
\* after the HWM update is in [threshold, threshold + 0.05) and strictly more
\* than 60 000 ms separate the tick from the last trigger (from 0 before the
\* first trigger); otherwise the event list is left as it is.
C2_TriggerIffBandAndCooldown ==
    [][StepTaken =>
          /\ Recorded <=> (CurDrawdownInBand /\ Ms(CurQ) - last_trigger_ms > 60000)
          /\ ~Recorded => trigger_events' = trigger_events]_vars

\* two triggers of one threshold, the second 60 001 ms after the first
C2_Witness ==
    /\ pc = "stop_loop"
    /\ Len(trigger_idx) = 2
    /\ Ms(At(qqq, trigger_idx[2])) - Ms(At(qqq, trigger_idx[1])) = 60001

\* indices of the reference ticks the loop has processed, from index a on
ProcessedFrom(a) ==
    { k \in 1..(Len(qqq) - 1) :
        k >= a /\ k < i /\ (k - 1) % Stride(Len(qqq), StopStrideDiv) = 0 }

\* the derived price time-aligned with reference tick k
Aligned(k) == Price(price_at_time(tqqq, Ms(At(qqq, k))))

\* derived prices observed from index a on (a = 0: from the start, where the
\* first derived tick is observed)
ObservedSince(a) ==
    { Aligned(k) : k \in ProcessedFrom(a) }
        \cup (IF a = 0 THEN {Price(At(tqqq, 0))} ELSE {})

LastResetIdx == IF trigger_idx = <<>> THEN 0 ELSE trigger_idx[Len(trigger_idx)]

\* C3 (as claimed): after every processed tick the derived HWM is the maximum
\* of the derived prices observed since the start or the last trigger reset;
\* a new reference high does not change it.
C3_Original ==
    pc = "stop_loop" => t_hwm = SetMax(ObservedSince(LastResetIdx))

\* C3 (amended): after every processed tick the derived HWM is the maximum of
\* the derived prices observed since the latest of the start, the last trigger
\* reset and the last tick that set a new reference high.
C3_DerivedHwmSinceAnchor ==
    pc = "stop_loop" =>
        t_hwm = SetMax(ObservedSince(IF high_i > LastResetIdx THEN high_i ELSE LastResetIdx))

\* a new reference high has lowered the derived HWM below a derived price
\* observed since the last reset
C3_Witness ==
    /\ pc = "stop_loop"
    /\ high_i > LastResetIdx
    /\ t_hwm < SetMax(ObservedSince(LastResetIdx))

\* C5: a step that records a trigger ends with hwm the tick's reference price,
\* t_hwm the time-aligned derived price and last_trigger_ms the tick's
\* timestamp, so both drawdowns recomputed at that tick are 0; a step that
\* records none leaves last_trigger_ms and the event list unchanged.
C5_ResetOnTrigger ==
    [][StepTaken =>
          IF trigger_events' # trigger_events
          THEN /\ hwm' = Price(CurQ)
               /\ t_hwm' = Price(price_at_time(tqqq, Ms(CurQ)))
               /\ last_trigger_ms' = Ms(CurQ)
               /\ hwm' > 0 /\ (hwm' - Price(CurQ)) * 100 = 0
               /\ t_hwm' > 0 /\ (t_hwm' - Price(price_at_time(tqqq, Ms(CurQ)))) * 100 = 0
          ELSE /\ last_trigger_ms' = last_trigger_ms
               /\ trigger_events' = trigger_events]_vars

\* the step just taken recorded a trigger while the derived price was below
\* a derived price seen before
C5_Witness ==
    /\ pc = "stop_loop"
    /\ trigger_idx # <<>>
    /\ LastResetIdx = i - 1
    /\ last_trigger_ms = Ms(At(qqq, i - 1))
    /\ t_hwm < Price(At(tqqq, 0))

\* the HWMs dominate the prices of the tick just processed
HwmsDominate ==
    i > 1 =>
        /\ hwm >= Price(At(qqq, i - Stride(Len(qqq), StopStrideDiv)))
        /\ t_hwm >= Aligned(i - Stride(Len(qqq), StopStrideDiv))

\* C10 (as claimed): after every processed tick the HWMs are at least the
\* current prices, and every recorded event has a reference drawdown in
\* [threshold, threshold + 0.05), a derived drawdown >= 0 and a ratio >= 0.
C10_Original ==
    pc = "stop_loop" =>
        /\ HwmsDominate
        /\ \A k \in 1..Len(trigger_events) :
              /\ trigger_events[k].qqq_drop >= stop_pct * 100
              /\ trigger_events[k].qqq_drop < (stop_pct + 5) * 100
              /\ trigger_events[k].tqqq_drop >= 0
              /\ trigger_events[k].ratio >= 0

\* C10 (amended): after every processed tick the HWMs are at least the current
\* prices, and every recorded event has a reference drawdown, as recorded
\* (rounded to 4 decimals), in the closed interval [threshold, threshold+0.05],
\* a derived drawdown >= 0 and a ratio >= 0.
C10_HwmsDominateAndEventsInRange ==
    pc = "stop_loop" =>
        /\ HwmsDominate
        /\ \A k \in 1..Len(trigger_events) :
              /\ trigger_events[k].qqq_drop >= stop_pct * 100
              /\ trigger_events[k].qqq_drop <= (stop_pct + 5) * 100
              /\ trigger_events[k].tqqq_drop >= 0
              /\ trigger_events[k].ratio >= 0

\* an event whose recorded reference drawdown is the rounded upper end 0.55
\* and whose derived drawdown is positive
C10_Witness ==
    /\ pc = "stop_loop"
    /\ \E k \in 1..Len(trigger_events) :
          /\ trigger_events[k].qqq_drop = 5500
          /\ trigger_events[k].tqqq_drop > 0
          /\ trigger_events[k].ratio > 0

\* processed ticks whose drawdown from the first price lies in [0.5, 0.55)
InBandFromStart ==
    { k \in ProcessedFrom(1) :
        /\ 10000 * (Price(At(qqq, 0)) - Price(At(qqq, k))) >= 50 * Price(At(qqq, 0))
        /\ 10000 * (Price(At(qqq, 0)) - Price(At(qqq, k))) < 55 * Price(At(qqq, 0)) }

\* C4 (as claimed): on a reference series dropping monotonically from 100 to
\* 99 the simulation with threshold 0.5 records exactly one trigger.
C4_Original ==
    (pc = "done" /\ stop_pct = 50 /\ IsMonotoneDrop(qqq)) => Len(trigger_events) = 1

\* C4 (amended): on a reference series dropping monotonically from 100 to 99
\* the simulation with threshold 0.5 records its first trigger at the first
\* processed tick whose drawdown from the HWM lies in [0.5, 0.55), and no
\* trigger when no processed tick lies in that band; every further trigger
\* comes more than 60 000 ms after the trigger before it.
C4_FirstTriggerAndCooldown ==
    (pc \in {"stop_loop", "done"} /\ stop_pct = 50 /\ IsMonotoneDrop(qqq)) =>
        /\ Len(trigger_events) = Len(trigger_idx)
        /\ InBandFromStart = {} <=> trigger_idx = <<>>
        /\ trigger_idx # <<>> => trigger_idx[1] = SetMin(InBandFromStart)
        /\ \A k \in 1..(Len(trigger_idx) - 1) :
              Ms(At(qqq, trigger_idx[k + 1])) - Ms(At(qqq, trigger_idx[k])) > 60000

\* one trigger at the first tick, and the band re-entered from the reset HWM
\* 99.50 at the next tick, inside the cooldown
C4_Witness ==
    /\ pc = "done" /\ stop_pct = 50 /\ IsMonotoneDrop(qqq)
    /\ trigger_idx = <<1>>
    /\ Price(At(qqq, 1)) = 9950
    /\ Price(At(qqq, 2)) = 9900

----------------------------------------------------------------------------
(* PART 2: the move/lag detector *)

\* faulty variant: a gap of exactly 5 s or 15 s is rejected
GapAccepted_Strict(gap) == ~(gap <= 5000 \/ gap >= 15000)

\* the negation of: gap < 5000 or gap > 15000
GapAccepted(gap) == ~(gap < 5000 \/ gap > 15000)

\* the negation of abs(q_pct) < move_threshold_pct, for
\* q_pct = (q1_p - q0_p) / q0_p * 100 and move_threshold_pct = 0.03
MoveAboveThreshold(q0_p, q1_p) == ~(Abs(q1_p - q0_p) * 10000 < 3 * q0_p)

\* (pct / expected * 100) if expected != 0 else 100, as the fraction num / den:
\* pct = (p - p0) / p0 * 100, expected = (q1_p - q0_p) / q0_p * 100 * factor
RatioNum(p, p0, q0_p) == (p - p0) * q0_p * 100
RatioDen(p0, q0_p, q1_p, factor) == factor * p0 * (q1_p - q0_p)

\* ratio >= 90
RatioAtLeast90(num, den) ==
    IF den > 0 THEN num >= 90 * den
    ELSE IF den < 0 THEN num <= 90 * den
    ELSE TRUE

\* the derived price nearest to the end of the move plus offset
TResponse(q0_ms, offset) == Price(price_at_time(tqqq, q0_ms + move_window_ms + offset))

\* the last offset of the ladder, from the k-th on, at which the ratio is >= 90
RECURSIVE LastCatchup(_, _, _, _)
LastCatchup(k, q0, q1_p, t0_p) ==
    IF k > Len(watch_steps) THEN -1
    ELSE LET later == LastCatchup(k + 1, q0, q1_p, t0_p)
         IN  IF later # -1 THEN later
             ELSE IF RatioAtLeast90(RatioNum(TResponse(Ms(q0), watch_steps[k]), t0_p, Price(q0)),
                                    RatioDen(t0_p, Price(q0), q1_p, 3))
                  THEN watch_steps[k]
                  ELSE -1

\* faulty variant: the scan of the ladder does not stop at the first offset
CatchupScan_NoBreak(k, q0, q1_p, t0_p) == LastCatchup(k, q0, q1_p, t0_p)

\* t_catchup_ms = -1; for offset in watch_steps: if ratio >= 90: t_catchup_ms =
\* offset; break  (the scan from the k-th offset on)
RECURSIVE CatchupScan(_, _, _, _)
CatchupScan(k, q0, q1_p, t0_p) ==
    IF k > Len(watch_steps) THEN -1
    ELSE IF RatioAtLeast90(RatioNum(TResponse(Ms(q0), watch_steps[k]), t0_p, Price(q0)),
                           RatioDen(t0_p, Price(q0), q1_p, 3))
         THEN watch_steps[k]
         ELSE CatchupScan(k + 1, q0, q1_p, t0_p)

\* the record appended to move_events: percentages in 1e-4 percent
\* (round(x, 4)), achieved percentages in tenths (round(x, 1))
MoveEvent(q0, q1) ==
    LET q0_p == Price(q0)
        q1_p == Price(q1)
        t0_p == Price(price_at_time(tqqq, Ms(q0)))
        s0_p == Price(price_at_time(sqqq, Ms(q0)))
        t_end == TResponse(Ms(q0), 0)
        s_end == Price(price_at_time(sqqq, Ms(q0) + move_window_ms))
        t_den == RatioDen(t0_p, q0_p, q1_p, 3)
        s_den == RatioDen(s0_p, q0_p, q1_p, -3)
    IN  [ direction |-> IF q1_p - q0_p > 0 THEN "UP" ELSE "DOWN",
          qqq_move_pct |-> RoundDiv((q1_p - q0_p) * 1000000, q0_p),
          expected_tqqq |-> RoundDiv((q1_p - q0_p) * 3000000, q0_p),
          tqqq_at_end |-> RoundDiv((t_end - t0_p) * 1000000, t0_p),
          t_achieved_pct |-> IF t_den # 0
                             THEN RoundDiv(RatioNum(t_end, t0_p, q0_p) * 10, t_den)
                             ELSE 1000,
          t_catchup_ms |-> CatchupScan(1, q0, q1_p, t0_p),
          expected_sqqq |-> RoundDiv((q1_p - q0_p) * (-3000000), q0_p),
          sqqq_at_end |-> RoundDiv((s_end - s0_p) * 1000000, s0_p),
          s_achieved_pct |-> IF s_den # 0
                             THEN RoundDiv(RatioNum(s_end, s0_p, q0_p) * 10, s_den)
                             ELSE 1000 ]

MoveStep ==
    /\ pc = "part2"
    /\ i < Len(qqq)
    /\ LET q0 == At(qqq, i)
           q1 == price_at_time(qqq, Ms(q0) + move_window_ms)
           gap == Ms(q1) - Ms(q0)
       IN  IF GapAccepted(gap) /\ MoveAboveThreshold(Price(q0), Price(q1))
           THEN /\ move_events' = Append(move_events, MoveEvent(q0, q1))
                /\ event_idx' = Append(event_idx, i)
           ELSE UNCHANGED <<move_events, event_idx>>
    /\ i' = i + Stride(Len(qqq), MoveStrideDiv)
    /\ UNCHANGED <<pc, lookupVars, pctVars, seriesVars, stopVars, runVars>>

\* the loop over the ticks is over: the summary of the move events is printed
EndMove ==
    /\ pc = "part2"
    /\ i >= Len(qqq)
    /\ pc' = "part2_done"
    /\ UNCHANGED <<i, lookupVars, pctVars, seriesVars, moveVars, stopVars, runVars>>

NextMove == MoveStep \/ EndMove

MoveGaps == {4999, 5000, 15000, 15001}
MoveQPrices == {10000, 10003, 10006}
MoveTPrices == {5000, 5009}
MoveSPrices == {1991, 2000}

\* the derived ticks are 0 s, 9 s, 16 s, 30 s, 44 s, ... after the open
MoveTOffset(k) ==
    IF k = 1 THEN 0 ELSE IF k = 2 THEN 9000 ELSE 16000 + 14000 * (k - 3)

InitMove ==
    /\ qqq \in { MakeTicks(OpenMs, g, p) :
                    g \in SeqsOfLen(MoveGaps, MoveQLen - 1),
                    p \in SeqsOfLen(MoveQPrices, MoveQLen) }
    /\ tqqq \in { [k \in 1..MoveTLen |-> <<OpenMs + MoveTOffset(k), p[k]>>] :
                    p \in SeqsOfLen(MoveTPrices, MoveTLen) }
    /\ sqqq \in { <<<<OpenMs, 2000>>, <<OpenMs + 10000, p>>>> : p \in MoveSPrices }
    /\ pc = "part2"
    /\ i = 0
    /\ move_events = <<>>
    /\ event_idx = <<>>
    /\ IdleLookup /\ IdlePct /\ IdleStop /\ IdleRun

SpecMove == InitMove /\ [][NextMove]_vars

----------------------------------------------------------------------------
(* Claims about the move/lag detector *)

Ladder == { watch_steps[k] : k \in 1..Len(watch_steps) }

\* at offset o after the end of the move that starts at reference tick k, the
\* derived response is at least 90 percent of three times the reference move
ReachedAt(k, o) ==
    LET q0 == At(qqq, k)
        q1 == price_at_time(qqq, Ms(q0) + 10000)
        t0_p == Price(price_at_time(tqqq, Ms(q0)))
        t_p == Price(price_at_time(tqqq, Ms(q0) + 10000 + o))
        num == (t_p - t0_p) * Price(q0) * 100
        den == 3 * t0_p * (Price(q1) - Price(q0))
    IN  \/ den > 0 /\ num >= 90 * den
        \/ den < 0 /\ num <= 90 * den
        \/ den = 0

\* C6: the catch-up offset of every move event is the smallest offset of the
\* ascending ladder {0, 1000, 2000, 5000, 10000, 20000, 30000} at which
\* response / expected * 100 >= 90, and -1, which is no offset of the ladder,
\* when no offset of the ladder reaches it.
C6_CatchupIsFirstOffset ==
    /\ Ladder = {0, 1000, 2000, 5000, 10000, 20000, 30000}
    /\ \A k \in 1..(Len(watch_steps) - 1) : watch_steps[k] < watch_steps[k + 1]
    /\ -1 \notin Ladder
    /\ pc \in {"part2", "part2_done"} =>
          /\ Len(move_events) = Len(event_idx)
          /\ \A j \in 1..Len(move_events) :
                LET c == move_events[j].t_catchup_ms
                IN  /\ c \in Ladder \cup {-1}
                    /\ c # -1 =>
                          /\ ReachedAt(event_idx[j], c)
                          /\ \A o \in Ladder : o < c => ~ReachedAt(event_idx[j], o)
                    /\ c = -1 => \A o \in Ladder : ~ReachedAt(event_idx[j], o)

\* an event that is short of 90 percent at the end of the move and reaches it
\* 5 s later, and another that never does
C6_Witness ==
    /\ pc = "part2_done"
    /\ \E j \in 1..Len(move_events) :
          /\ move_events[j].t_catchup_ms = 5000
          /\ move_events[j].t_achieved_pct < 900
    /\ \E j \in 1..Len(move_events) : move_events[j].t_catchup_ms = -1

\* indices of the reference ticks PART 2 has sampled and evaluated so far
Evaluated ==
    { k \in 0..(Len(qqq) - 1) : k < i /\ k % Stride(Len(qqq), MoveStrideDiv) = 0 }

\* the nearest reference tick to T0 + 10 s lies 5 s to 15 s after T0 and the
\* reference moved by at least 0.03 percent
Accepted(k) ==
    LET q0 == At(qqq, k)
        q1 == price_at_time(qqq, Ms(q0) + 10000)
    IN  /\ Ms(q1) - Ms(q0) \in 5000..15000
        /\ 10000 * Abs(Price(q1) - Price(q0)) >= 3 * Price(q0)

\* C9: a sampled reference tick yields exactly one move event iff the nearest
\* reference tick to T0 + 10 000 ms is 5000 to 15000 ms after T0 and the
\* absolute reference move is at least 0.03 percent; every other sampled tick
\* yields none, and the loop goes on to the ticks after a rejected one.
C9_OneEventPerAcceptedTick ==
    pc \in {"part2", "part2_done"} =>
        /\ \A k \in Evaluated :
              Cardinality({ j \in 1..Len(event_idx) : event_idx[j] = k })
                  = IF Accepted(k) THEN 1 ELSE 0
        /\ \A j \in 1..Len(event_idx) : event_idx[j] \in Evaluated
        /\ Len(move_events) = Len(event_idx)
        /\ pc = "part2_done" =>
              \A k \in 0..(Len(qqq) - 1) :
                  k % Stride(Len(qqq), MoveStrideDiv) = 0 => k \in Evaluated

\* the first sampled tick is rejected and the second, whose move spans exactly
\* 15 000 ms, produces the only event
C9_Witness ==
    /\ pc = "part2_done"
    /\ event_idx = <<1>>
    /\ Ms(At(qqq, 2)) - Ms(At(qqq, 1)) = 15000
    /\ move_events[1].direction = "DOWN"

----------------------------------------------------------------------------
(* run_analysis: the loop over DATES, under the try/except of __main__ *)

\* what a session's files hold: which of the three files exist, how many ticks
\* each series has within market hours, and whether a price of 0 reaches the
\* denominator of one of the percentages
Session(q, t, s, nq, nt, ns, z) ==
    [ qqq_file |-> q, tqqq_file |-> t, sqqq_file |-> s,
      n_qqq |-> nq, n_tqqq |-> nt, n_sqqq |-> ns, zero_denominator |-> z ]

SessionKinds ==
    { Session(TRUE, TRUE, TRUE, 100, 100, 100, FALSE),
      Session(FALSE, TRUE, TRUE, 0, 100, 100, FALSE),
      Session(TRUE, FALSE, TRUE, 100, 0, 100, FALSE),
      Session(TRUE, TRUE, FALSE, 100, 100, 0, FALSE),
      Session(TRUE, TRUE, TRUE, 100, 99, 100, FALSE),
      Session(TRUE, TRUE, TRUE, 100, 100, 100, TRUE) }

CurSession == sessions[date_idx + 1]
InLoop == run_state = "running" /\ date_idx < NumDates
TooFew(s) == s.n_qqq < MinTicks \/ s.n_tqqq < MinTicks \/ s.n_sqqq < MinTicks

\* the end of one pass of the loop over DATES
NextDate(outcome) ==
    /\ outcomes' = Append(outcomes, outcome)
    /\ date_idx' = date_idx + 1
    /\ UNCHANGED <<sessions, run_state>>
    /\ UNCHANGED <<lookupVars, pctVars, seriesVars, pc, i, moveVars, stopVars>>

\* an exception leaves run_analysis: __main__ prints it and the run is over
Raise(outcome) ==
    /\ outcomes' = Append(outcomes, outcome)
    /\ run_state' = "error"
    /\ UNCHANGED <<sessions, date_idx>>
    /\ UNCHANGED <<lookupVars, pctVars, seriesVars, pc, i, moveVars, stopVars>>

\* if not os.path.exists(qqq_file): continue
SkipMissing ==
    /\ InLoop
    /\ ~CurSession.qqq_file
    /\ NextDate("skip_missing")

\* load_ticks opens a file that does not exist
LoadRaises ==
    /\ InLoop
    /\ CurSession.qqq_file
    /\ ~CurSession.tqqq_file \/ ~CurSession.sqqq_file
    /\ Raise("file_not_found")

\* if len(qqq) < 100 or len(tqqq) < 100 or len(sqqq) < 100: continue
SkipTooFew ==
    /\ InLoop
    /\ CurSession.qqq_file /\ CurSession.tqqq_file /\ CurSession.sqqq_file
    /\ TooFew(CurSession)
    /\ NextDate("skip_too_few")

\* a division by a price of 0 in PART 1, 2 or 3
AnalysisRaises ==
    /\ InLoop
    /\ CurSession.qqq_file /\ CurSession.tqqq_file /\ CurSession.sqqq_file
    /\ ~TooFew(CurSession)
    /\ CurSession.zero_denominator
    /\ Raise("zero_division")

\* PART 1, 2 and 3 run to their end
Analyse ==
    /\ InLoop
    /\ CurSession.qqq_file /\ CurSession.tqqq_file /\ CurSession.sqqq_file
    /\ ~TooFew(CurSession)
    /\ ~CurSession.zero_denominator
    /\ NextDate("analysed")

\* the loop over DATES is over: the summary is printed
Finish ==
    /\ run_state = "running"
    /\ date_idx = NumDates
    /\ run_state' = "finished"
    /\ UNCHANGED <<sessions, date_idx, outcomes>>
    /\ UNCHANGED <<lookupVars, pctVars, seriesVars, pc, i, moveVars, stopVars>>

NextRun == SkipMissing \/ LoadRaises \/ SkipTooFew \/ AnalysisRaises \/ Analyse \/ Finish

InitRun ==
    /\ sessions \in SeqsOfLen(SessionKinds, NumDates)
    /\ date_idx = 0
    /\ outcomes = <<>>
    /\ run_state = "running"
    /\ IdleLookup /\ IdlePct /\ IdleSeries /\ IdleLoops /\ IdleMove /\ IdleStop

SpecRun == InitRun /\ [][NextRun]_vars

\* C7: a failure while one session is processed (a derived file missing while
\* the reference file exists, a price of 0 in a denominator) does not abort
\* the run, and neither does a skipped session: when the run is over, every
\* date of the list has been processed or skipped.
C7_EverySessionProcessed ==
    run_state \in {"finished", "error"} => Len(outcomes) = NumDates

====
